---- MODULE Spec2Model ----
(***************************************************************************)
(* A model of phonespy.py: the offline phone-number lookup tool.           *)
(*                                                                         *)
(* A Python dict is modelled as a sequence of <<key, value>> pairs in      *)
(* insertion order, so that the key sequence csv.DictWriter takes from     *)
(* rows[0].keys() is part of the model.  The phonenumbers library is an    *)
(* oracle `lib`, fixed at start-up: for every raw string either the parse  *)
(* error it raises or the answers of its predicates and look-ups.          *)
(*                                                                         *)
(* Not modelled: argparse's own failures (no positional argument, unknown  *)
(* flag), the quoting and str() conversion of CSV cells, the text of the   *)
(* JSON document (the file holds the record sequence itself), and the      *)
(* previous content of the output file (only whether it existed and        *)
(* whether this run opened it for writing).                                *)
(***************************************************************************)
EXTENDS Integers, Sequences, FiniteSets, TLC

VARIABLES numbers, output, format, lib, libVersion, results, printed,
          stdout, stderr, file, fieldnames, pc, raised, exitStatus,
          traceback, calls

vars == <<numbers, output, format, lib, libVersion, results, printed,
          stdout, stderr, file, fieldnames, pc, raised, exitStatus,
          traceback, calls>>

----------------------------------------------------------------------------
(* Bounds *)

MaxNumbers == 2
MaxRows == 2

RawNumbers == {"+12025550123", "not-a-number"}

None == "None"
OutputArgs == {None, "", "out.file"}
Formats == {"json", "csv"}

----------------------------------------------------------------------------
(* Python dicts as ordered key/value sequences *)

Keys(d) == [n \in 1..Len(d) |-> d[n][1]]

KeySet(d) == {d[n][1] : n \in 1..Len(d)}

HasKey(d, k) == k \in KeySet(d)

Item(d, k) == d[CHOOSE n \in 1..Len(d) : d[n][1] = k][2]

\* dict.get(key, default)
Get(d, k, default) == IF HasKey(d, k) THEN Item(d, k) ELSE default

Range(s) == {s[n] : n \in 1..Len(s)}

----------------------------------------------------------------------------
(* The phonenumbers library, as an oracle *)

ParseMessages == {"The string supplied did not seem to be a phone number."}

ParseErrors == [parsed : {FALSE}, msg : ParseMessages]

ParsedNumbers ==
    [parsed : {TRUE},
     country_code : {1},
     national_number : {2025550123},
     is_valid : BOOLEAN,
     is_possible : BOOLEAN,
     region : {"Washington D.C."},
     carrier : {"", "Verizon"},
     timezones : {<<>>, <<"America/New_York">>},
     number_type : {1}]

LibResponses == ParseErrors \cup ParsedNumbers

\* how this release of the library exposes PhoneNumberType
LibVersions == {"enum", "table", "neither"}

format_number(parsed, style) ==
    IF style = "E164"
    THEN <<"+", parsed.country_code, parsed.national_number>>
    ELSE <<"+", parsed.country_code, " ", parsed.national_number>>

\* PhoneNumberType, the codes the model uses
PhoneNumberTypeNames == (0 :> "FIXED_LINE") @@ (1 :> "MOBILE")

\* lines 54-66: the enum's name, else the table's entry, else str(num_type)
_phone_type_name(parsed) ==
    LET num_type == parsed.number_type IN
    CASE libVersion = "enum"  -> PhoneNumberTypeNames[num_type]
      [] libVersion = "table" ->
            IF num_type \in DOMAIN PhoneNumberTypeNames
            THEN PhoneNumberTypeNames[num_type] ELSE "UNKNOWN"
      [] OTHER                -> ToString(num_type)

----------------------------------------------------------------------------
(* basic_lookup *)

\* line 76
error_record(raw_number, msg) ==
    << <<"input", raw_number>>, <<"valid", FALSE>>, <<"error", msg>> >>

\* a slip at lines 78-84: valid taken from is_valid_number alone
info_ValidOnly(raw_number, parsed) ==
    << <<"input", raw_number>>,
       <<"valid", parsed.is_valid>>,
       <<"possible", parsed.is_possible>>,
       <<"international_format", format_number(parsed, "INTERNATIONAL")>>,
       <<"e164_format", format_number(parsed, "E164")>>,
       <<"country_code", parsed.country_code>>,
       <<"region", parsed.region>>,
       <<"carrier", parsed.carrier>>,
       <<"timezones", parsed.timezones>>,
       <<"type", _phone_type_name(parsed)>> >>

\* lines 78-92
info(raw_number, parsed) ==
    LET valid == parsed.is_valid
        possible == parsed.is_possible
    IN << <<"input", raw_number>>,
          <<"valid", valid /\ possible>>,
          <<"possible", possible>>,
          <<"international_format", format_number(parsed, "INTERNATIONAL")>>,
          <<"e164_format", format_number(parsed, "E164")>>,
          <<"country_code", parsed.country_code>>,
          <<"region", parsed.region>>,
          <<"carrier", parsed.carrier>>,
          <<"timezones", parsed.timezones>>,
          <<"type", _phone_type_name(parsed)>> >>

\* a slip at line 75: the except clause misses NumberParseException
basic_lookup_Uncaught(raw_number) ==
    LET parsed == lib[raw_number] IN
    IF ~parsed.parsed
    THEN [exc |-> "NumberParseException", value |-> <<>>]
    ELSE [exc |-> None, value |-> info(raw_number, parsed)]

\* the record returned, or the exception that escapes
basic_lookup(raw_number) ==
    LET parsed == lib[raw_number] IN
    IF ~parsed.parsed
    THEN [exc |-> None, value |-> error_record(raw_number, parsed.msg)]
    ELSE [exc |-> None, value |-> info(raw_number, parsed)]

----------------------------------------------------------------------------
(* Console printer: the print calls one iteration of the loop makes *)

\* a slip at line 146: the carrier printed as it is
PrintCalls_RawCarrier(res) ==
    IF ~Get(res, "valid", FALSE)
    THEN << [needs |-> {"input"},
             line |-> <<"[!]", Get(res, "input", None), "Invalid",
                        Get(res, "error", "")>>] >>
    ELSE << [needs |-> {"international_format"},
             line |-> <<"\n", Get(res, "international_format", None)>>],
            [needs |-> {"region", "country_code"},
             line |-> <<"  Region", Get(res, "region", None),
                        Get(res, "country_code", None)>>],
            [needs |-> {"carrier"},
             line |-> <<"  Carrier", Get(res, "carrier", "")>>],
            [needs |-> {"type"},
             line |-> <<"  Type", Get(res, "type", None)>>],
            [needs |-> {"timezones"},
             line |-> <<"  Time-zones",
                        IF Get(res, "timezones", <<>>) = <<>> THEN "Unknown"
                        ELSE Get(res, "timezones", <<>>)>>] >>

\* one entry per print call: the keys it subscripts and what it prints
PrintCalls(res) ==
    IF ~Get(res, "valid", FALSE)
    THEN << [needs |-> {"input"},
             line |-> <<"[!]", Get(res, "input", None), "Invalid",
                        Get(res, "error", "")>>] >>
    ELSE << [needs |-> {"international_format"},
             line |-> <<"\n", Get(res, "international_format", None)>>],
            [needs |-> {"region", "country_code"},
             line |-> <<"  Region", Get(res, "region", None),
                        Get(res, "country_code", None)>>],
            [needs |-> {"carrier"},
             line |-> <<"  Carrier",
                        IF Get(res, "carrier", "") = "" THEN "Unknown"
                        ELSE Get(res, "carrier", "")>>],
            [needs |-> {"type"},
             line |-> <<"  Type", Get(res, "type", None)>>],
            [needs |-> {"timezones"},
             line |-> <<"  Time-zones",
                        IF Get(res, "timezones", <<>>) = <<>> THEN "Unknown"
                        ELSE Get(res, "timezones", <<>>)>>] >>

\* the print calls that run before the first KeyError, if any
PrintedCalls(res) ==
    LET all == PrintCalls(res)
        bad == {n \in 1..Len(all) : ~(all[n].needs \subseteq KeySet(res))}
        stop == IF bad = {} THEN Len(all)
                ELSE (CHOOSE n \in bad : \A m \in bad : n <= m) - 1
    IN [lines |-> [n \in 1..stop |-> all[n].line],
        exc |-> IF bad = {} THEN None ELSE "KeyError"]

----------------------------------------------------------------------------
(* csv.DictWriter, extrasaction = "raise", restval = "" *)

_dict_to_list(names, rowdict) ==
    IF KeySet(rowdict) \ Range(names) # {}
    THEN [exc |-> "ValueError", row |-> <<>>]
    ELSE [exc |-> None,
          row |-> [n \in 1..Len(names) |-> Get(rowdict, names[n], "")]]

----------------------------------------------------------------------------
(* The process *)

NoFile == [exists |-> FALSE, opened |-> FALSE, content |-> <<>>]
OldFile == [exists |-> TRUE, opened |-> FALSE, content |-> <<>>]

\* open(path, "w"): creates or truncates
Opened == [exists |-> TRUE, opened |-> TRUE, content |-> <<>>]

SuccessLine == <<"\n[+] Results written to", "out.file">>
InterruptLine == "[!] Interrupted by user"

CliPcs == {"lookup", "print", "export", "write_csv", "csv_open", "csv_header",
           "csv_rows", "write_json", "success_line"}
WritePcs == {"csv_open", "csv_header", "csv_rows", "write_json"}

NumberSeqs == UNION {[1..n -> RawNumbers] : n \in 1..MaxNumbers}

Init ==
    /\ numbers \in NumberSeqs
    /\ output \in OutputArgs
    /\ format \in Formats
    /\ lib \in [RawNumbers -> LibResponses]
    /\ libVersion \in LibVersions
    /\ results = <<>>
    /\ printed = 0
    /\ stdout = <<>>
    /\ stderr = <<>>
    /\ file \in {NoFile, OldFile}
    /\ fieldnames = <<>>
    /\ pc = "lookup"
    /\ raised = None
    /\ exitStatus = -1
    /\ traceback = FALSE
    /\ calls = <<>>

\* a slip at line 136: each record put in front of the earlier ones
Lookup_Prepend ==
    /\ pc = "lookup"
    /\ Len(results) < Len(numbers)
    /\ LET r == basic_lookup(numbers[Len(results) + 1]) IN
       /\ results' = <<r.value>> \o results
       /\ pc' = IF Len(results') = Len(numbers) THEN "print" ELSE "lookup"
       /\ raised' = raised
    /\ UNCHANGED <<numbers, output, format, lib, libVersion, printed, stdout,
                   stderr, file, fieldnames, exitStatus, traceback, calls>>

\* line 136, one element of the comprehension
Lookup ==
    /\ pc = "lookup"
    /\ Len(results) < Len(numbers)
    /\ LET r == basic_lookup(numbers[Len(results) + 1]) IN
       IF r.exc = None
       THEN /\ results' = Append(results, r.value)
            /\ pc' = IF Len(results') = Len(numbers) THEN "print" ELSE "lookup"
            /\ raised' = raised
       ELSE /\ raised' = r.exc
            /\ pc' = "raised"
            /\ results' = results
    /\ UNCHANGED <<numbers, output, format, lib, libVersion, printed, stdout,
                   stderr, file, fieldnames, exitStatus, traceback, calls>>

\* lines 139-148, one iteration
PrintRecord ==
    /\ pc = "print"
    /\ printed < Len(results)
    /\ LET p == PrintedCalls(results[printed + 1]) IN
       /\ stdout' = stdout \o p.lines
       /\ IF p.exc = None
          THEN /\ printed' = printed + 1
               /\ pc' = IF printed' = Len(results) THEN "export" ELSE "print"
               /\ raised' = raised
          ELSE /\ raised' = p.exc
               /\ pc' = "raised"
               /\ printed' = printed
    /\ UNCHANGED <<numbers, output, format, lib, libVersion, results, stderr,
                   file, fieldnames, exitStatus, traceback, calls>>

\* a slip at line 153: the two serializers taken for each other
Export_FormatSwapped ==
    /\ pc = "export"
    /\ IF output = None \/ output = ""
       THEN pc' = "cli_return" /\ calls' = calls
       ELSE IF format = "csv"
            THEN pc' = "write_json" /\ calls' = Append(calls, "write_json")
            ELSE pc' = "write_csv" /\ calls' = Append(calls, "write_csv")
    /\ UNCHANGED <<numbers, output, format, lib, libVersion, results, printed,
                   stdout, stderr, file, fieldnames, exitStatus, traceback,
                   raised>>

\* a slip at line 157: the success line outside the if of line 151
Export_SuccessOutsideIf ==
    /\ pc = "export"
    /\ IF output = None \/ output = ""
       THEN pc' = "success_line" /\ calls' = calls
       ELSE IF format = "csv"
            THEN pc' = "write_csv" /\ calls' = Append(calls, "write_csv")
            ELSE pc' = "write_json" /\ calls' = Append(calls, "write_json")
    /\ UNCHANGED <<numbers, output, format, lib, libVersion, results, printed,
                   stdout, stderr, file, fieldnames, exitStatus, traceback,
                   raised>>

\* lines 151-156: the choice of the serializer
Export ==
    /\ pc = "export"
    /\ IF output = None \/ output = ""
       THEN pc' = "cli_return" /\ calls' = calls
       ELSE IF format = "csv"
            THEN pc' = "write_csv" /\ calls' = Append(calls, "write_csv")
            ELSE pc' = "write_json" /\ calls' = Append(calls, "write_json")
    /\ UNCHANGED <<numbers, output, format, lib, libVersion, results, printed,
                   stdout, stderr, file, fieldnames, exitStatus, traceback,
                   raised>>

\* lines 105-107
WriteCsv ==
    /\ pc = "write_csv"
    /\ IF results = <<>>
       THEN pc' = "success_line" /\ fieldnames' = fieldnames
       ELSE pc' = "csv_open" /\ fieldnames' = Keys(results[1])
    /\ UNCHANGED <<numbers, output, format, lib, libVersion, results, printed,
                   stdout, stderr, file, exitStatus, traceback, raised, calls>>

\* line 108
CsvOpen ==
    /\ pc = "csv_open"
    /\ file' = Opened
    /\ pc' = "csv_header"
    /\ UNCHANGED <<numbers, output, format, lib, libVersion, results, printed,
                   stdout, stderr, fieldnames, exitStatus, traceback, raised,
                   calls>>

\* lines 109-110
CsvWriteHeader ==
    /\ pc = "csv_header"
    /\ file' = [file EXCEPT !.content = Append(@, fieldnames)]
    /\ pc' = "csv_rows"
    /\ UNCHANGED <<numbers, output, format, lib, libVersion, results, printed,
                   stdout, stderr, fieldnames, exitStatus, traceback, raised,
                   calls>>

\* line 111, one row of writerows; the with block closes the file either way
CsvWriteRow ==
    /\ pc = "csv_rows"
    /\ Len(file.content) - 1 < Len(results)
    /\ LET r == _dict_to_list(fieldnames, results[Len(file.content)]) IN
       IF r.exc = None
       THEN /\ file' = [file EXCEPT !.content = Append(@, r.row)]
            /\ pc' = IF Len(file'.content) - 1 = Len(results)
                     THEN "success_line" ELSE "csv_rows"
            /\ raised' = raised
       ELSE /\ raised' = r.exc
            /\ pc' = "raised"
            /\ file' = file
    /\ UNCHANGED <<numbers, output, format, lib, libVersion, results, printed,
                   stdout, stderr, fieldnames, exitStatus, traceback, calls>>

\* lines 114-115
WriteJson ==
    /\ pc = "write_json"
    /\ file' = [Opened EXCEPT !.content = results]
    /\ pc' = "success_line"
    /\ UNCHANGED <<numbers, output, format, lib, libVersion, results, printed,
                   stdout, stderr, fieldnames, exitStatus, traceback, raised,
                   calls>>

\* line 157
PrintSuccess ==
    /\ pc = "success_line"
    /\ stdout' = Append(stdout, SuccessLine)
    /\ pc' = "cli_return"
    /\ UNCHANGED <<numbers, output, format, lib, libVersion, results, printed,
                   stderr, file, fieldnames, exitStatus, traceback, raised,
                   calls>>

\* the operating system refuses the open or a write (permission, disk full)
WriteFailure ==
    /\ pc \in WritePcs
    /\ raised' = "OSError"
    /\ pc' = "raised"
    /\ \E truncated \in BOOLEAN :
          file' = IF pc = "write_json" /\ truncated THEN Opened ELSE file
    /\ UNCHANGED <<numbers, output, format, lib, libVersion, results, printed,
                   stdout, stderr, fieldnames, exitStatus, traceback, calls>>

\* Ctrl-C while cli() runs
KeyboardInterrupt ==
    /\ pc \in CliPcs
    /\ raised' = "KeyboardInterrupt"
    /\ pc' = "raised"
    /\ UNCHANGED <<numbers, output, format, lib, libVersion, results, printed,
                   stdout, stderr, file, fieldnames, exitStatus, traceback,
                   calls>>

\* a slip at line 163: no handler for KeyboardInterrupt
main_NoHandler(exc) ==
    CASE exc = None -> [status |-> 0, err |-> <<>>, trace |-> FALSE]
      [] OTHER -> [status |-> 1, err |-> <<>>, trace |-> TRUE]

\* lines 160-164: what the top level makes of the way cli() ended
main(exc) ==
    CASE exc = None -> [status |-> 0, err |-> <<>>, trace |-> FALSE]
      [] exc = "KeyboardInterrupt" ->
            [status |-> 1, err |-> <<InterruptLine>>, trace |-> FALSE]
      [] OTHER -> [status |-> 1, err |-> <<>>, trace |-> TRUE]

Exit ==
    /\ pc \in {"cli_return", "raised"}
    /\ LET m == main(raised) IN
       /\ exitStatus' = m.status
       /\ stderr' = stderr \o m.err
       /\ traceback' = m.trace
    /\ pc' = "exited"
    /\ UNCHANGED <<numbers, output, format, lib, libVersion, results, printed,
                   stdout, file, fieldnames, raised, calls>>

Next ==
    \/ Lookup
    \/ PrintRecord
    \/ Export
    \/ WriteCsv
    \/ CsvOpen
    \/ CsvWriteHeader
    \/ CsvWriteRow
    \/ WriteJson
    \/ PrintSuccess
    \/ WriteFailure
    \/ KeyboardInterrupt
    \/ Exit

Spec == Init /\ [][Next]_vars

----------------------------------------------------------------------------
(* write_csv on its own, over every sequence of records of either shape *)

RowSeqs ==
    UNION {[1..n -> {basic_lookup(raw).value : raw \in RawNumbers}]
             : n \in 0..MaxRows}

InitCsv ==
    /\ numbers = <<>>
    /\ output = "out.file"
    /\ format = "csv"
    /\ lib \in [RawNumbers -> LibResponses]
    /\ libVersion \in LibVersions
    /\ results \in RowSeqs
    /\ printed = 0
    /\ stdout = <<>>
    /\ stderr = <<>>
    /\ file \in {NoFile, OldFile}
    /\ fieldnames = <<>>
    /\ pc = "write_csv"
    /\ raised = None
    /\ exitStatus = -1
    /\ traceback = FALSE
    /\ calls = <<"write_csv">>

NextCsv ==
    \/ WriteCsv
    \/ CsvOpen
    \/ CsvWriteHeader
    \/ CsvWriteRow
    \/ WriteFailure

SpecCsv == InitCsv /\ [][NextCsv]_vars

TypeOK ==
    /\ pc \in CliPcs \cup {"cli_return", "raised", "exited"}
    /\ printed \in 0..Len(results)
    /\ exitStatus \in {-1, 0, 1}

----------------------------------------------------------------------------
(* Vocabulary of the properties *)

ErrorKeys == <<"input", "valid", "error">>

FullKeys == <<"input", "valid", "possible", "international_format",
              "e164_format", "country_code", "region", "carrier",
              "timezones", "type">>

EnrichmentKeys == {"possible", "international_format", "e164_format",
                   "country_code", "region", "carrier", "timezones", "type"}

IsErrorRecord(d) == Keys(d) = ErrorKeys
IsFullRecord(d) == Keys(d) = FullKeys

\* the process has ended and was not interrupted
Finished == pc = "exited" /\ raised # "KeyboardInterrupt"

\* cli() is past line 136
AfterLookup == pc \in (CliPcs \ {"lookup"}) \cup {"cli_return"}

HasSuccessLine == \E n \in 1..Len(stdout) : stdout[n][1] = SuccessLine[1]

----------------------------------------------------------------------------
(* C1 *)

\* C1: whatever the options, invalid or unparseable numbers in the batch do
\* not make the process fail: when the output path is writable and nobody
\* interrupts, every input was looked up and reported on the console and
\* the run ends with exit status 0.
C1_InvalidNumbersNeverFail ==
    (Finished /\ raised # "OSError")
        => /\ Len(results) = Len(numbers)
           /\ printed = Len(numbers)
           /\ exitStatus = 0
           /\ ~traceback

----------------------------------------------------------------------------
(* C2 *)

\* C2: once write_csv has ended on a writable path, a non-empty sequence of
\* records has left a file whose header row is the key sequence of the first
\* record and that holds one data row per record; the empty sequence has
\* left the file neither created nor truncated.
C2_CsvHeaderAndRowCount ==
    (pc \in {"success_line", "raised"} /\ raised # "OSError")
        => IF results = <<>>
           THEN ~file.opened /\ file.content = <<>>
           ELSE /\ pc = "success_line"
                /\ file.opened
                /\ Len(file.content) = Len(results) + 1
                /\ file.content[1] = Keys(results[1])

----------------------------------------------------------------------------
(* C3 *)

\* a batch of two inputs, one fully-populated record and one error record,
\* exported with -f csv -o <path>, the path writable and the run not
\* interrupted
MixedCsvRun ==
    /\ Finished /\ raised # "OSError"
    /\ output = "out.file" /\ format = "csv"
    /\ Len(results) = 2
    /\ \E a, b \in 1..2 : IsFullRecord(results[a]) /\ IsErrorRecord(results[b])

\* C3: in such a run, in either input order, the file's header row is the
\* fully-populated record's keys and the file has exactly 2 data rows, the
\* error record's row holding "" under every header key the record lacks.
C3_MixedCsvTwoRows ==
    MixedCsvRun
        => /\ Len(file.content) = 3
           /\ file.content[1] = FullKeys
           /\ \A b \in 1..2 :
                IsErrorRecord(results[b]) =>
                  \A n \in 1..Len(FullKeys) :
                    ~HasKey(results[b], FullKeys[n])
                        => file.content[b + 1][n] = ""

----------------------------------------------------------------------------
(* C4 *)

\* C4: basic_lookup never lets the parser's exception escape, and for every
\* input the parser rejects the record it returns is exactly input = s,
\* valid = false, error = the parser's non-empty message, with none of the
\* enrichment keys.
C4_ParseFailureBecomesRecord ==
    /\ raised # "NumberParseException"
    /\ \A k \in 1..Len(results) :
         ~lib[numbers[k]].parsed =>
            /\ results[k] = << <<"input", numbers[k]>>, <<"valid", FALSE>>,
                               <<"error", lib[numbers[k]].msg>> >>
            /\ Item(results[k], "error") # ""
            /\ KeySet(results[k]) \cap EnrichmentKeys = {}

\* a rejected input was looked up and the batch went on to the console
C4_Witness ==
    /\ pc = "export"
    /\ \E k \in 1..Len(results) :
         ~lib[numbers[k]].parsed /\ IsErrorRecord(results[k])

----------------------------------------------------------------------------
(* C5 *)

\* every record so far belongs to its input, in input order, and has one of
\* the two shapes
RecordsWellFormed ==
    /\ Len(results) <= Len(numbers)
    /\ \A k \in 1..Len(results) :
         /\ Item(results[k], "input") = numbers[k]
         /\ \/ KeySet(results[k]) = Range(FullKeys)
               /\ Len(results[k]) = Len(FullKeys)
            \/ KeySet(results[k]) = Range(ErrorKeys)
               /\ Len(results[k]) = Len(ErrorKeys)
         /\ HasKey(results[k], "error") <=> ~HasKey(results[k], "e164_format")

\* a record, once in the sequence, stays as it is
RecordsKept ==
    /\ Len(results') >= Len(results)
    /\ \A k \in 1..Len(results) : results'[k] = results[k]

\* C5: after the lookup phase there is exactly one record per input, in
\* input order, each either fully populated or an error record (it has the
\* error key exactly when it lacks e164_format), and no record changes
\* after it was created.
C5_OneRecordPerInput ==
    /\ [](RecordsWellFormed /\ (AfterLookup => Len(results) = Len(numbers)))
    /\ [][RecordsKept]_vars

\* the same input twice, a record for each
C5_Witness ==
    /\ AfterLookup
    /\ Len(results) = 2
    /\ numbers[1] = numbers[2]
    /\ IsFullRecord(results[1])

----------------------------------------------------------------------------
(* C6 *)

\* the serializer calls agree with the format flag, and at most one is made
OneSerializer ==
    /\ Len(calls) <= 1
    /\ calls = <<"write_csv">> => format = "csv"
    /\ calls = <<"write_json">> => format = "json"
    /\ calls # <<>> => calls \in {<<"write_csv">>, <<"write_json">>}

----------------------------------------------------------------------------
(* C7 *)

RECURSIVE ConsoleLen(_)
\* the number of print calls the claim gives the first k records
ConsoleLen(k) ==
    IF k = 0 THEN 0
    ELSE ConsoleLen(k - 1) + (IF Item(results[k], "valid") THEN 5 ELSE 1)

\* C7: the console holds, record by record in sequence order, either the
\* one warning line with the input and the error message ("" when none was
\* set) or the international format and the four detail lines, "Unknown"
\* standing for an empty carrier and for an empty time-zone list; printing
\* never fails on a missing key.
C7_ConsoleOutputPerRecord ==
    /\ raised # "KeyError"
    /\ Len(stdout) = ConsoleLen(printed) + (IF HasSuccessLine THEN 1 ELSE 0)
    /\ \A k \in 1..printed :
         LET res == results[k]
             o == ConsoleLen(k - 1)
         IN IF ~Item(res, "valid")
            THEN stdout[o + 1] =
                   <<"[!]", Item(res, "input"), "Invalid",
                     IF HasKey(res, "error") THEN Item(res, "error") ELSE "">>
            ELSE /\ stdout[o + 1] = <<"\n", Item(res, "international_format")>>
                 /\ stdout[o + 2] = <<"  Region", Item(res, "region"),
                                      Item(res, "country_code")>>
                 /\ stdout[o + 3][1] = "  Carrier"
                 /\ stdout[o + 3][2] = IF Item(res, "carrier") = ""
                                       THEN "Unknown" ELSE Item(res, "carrier")
                 /\ stdout[o + 4] = <<"  Type", Item(res, "type")>>
                 /\ stdout[o + 5][1] = "  Time-zones"
                 /\ IF Item(res, "timezones") = <<>>
                    THEN stdout[o + 5][2] = "Unknown"
                    ELSE stdout[o + 5][2] = Item(res, "timezones")

\* a parsed but invalid number (warning with no message), then a valid one
\* with neither carrier nor time zones
C7_Witness ==
    /\ printed = 2
    /\ IsFullRecord(results[1]) /\ ~Item(results[1], "valid")
    /\ IsFullRecord(results[2]) /\ Item(results[2], "valid")
    /\ Item(results[2], "carrier") = ""
    /\ Item(results[2], "timezones") = <<>>

----------------------------------------------------------------------------
(* C8 *)

\* C8: for every input that parses, valid is is_valid_number and
\* is_possible_number together and possible is is_possible_number; so in
\* every record valid implies possible.
C8_ValidIsValidAndPossible ==
    \A k \in 1..Len(results) :
      /\ lib[numbers[k]].parsed =>
           /\ Item(results[k], "valid")
                = (lib[numbers[k]].is_valid /\ lib[numbers[k]].is_possible)
           /\ Item(results[k], "possible") = lib[numbers[k]].is_possible
      /\ Item(results[k], "valid") =>
           HasKey(results[k], "possible") /\ Item(results[k], "possible")

\* the library calls a number valid but not possible; the record is
\* neither, and another record is possible without being valid
C8_Witness ==
    /\ Len(results) = 2
    /\ lib[numbers[1]].parsed
    /\ lib[numbers[1]].is_valid /\ ~lib[numbers[1]].is_possible
    /\ ~Item(results[1], "valid")
    /\ IsFullRecord(results[2])
    /\ Item(results[2], "possible") /\ ~Item(results[2], "valid")

----------------------------------------------------------------------------
(* C9 *)

\* C9: a keyboard interrupt during the lookups, the printing or the file
\* write stops all further work; the process ends with exactly one line on
\* standard error, a non-zero exit status and no traceback.
C9_InterruptExitsCleanly ==
    /\ []((raised = "KeyboardInterrupt" /\ pc = "exited")
            => /\ stderr = <<InterruptLine>>
               /\ exitStatus = 1
               /\ ~traceback)
    /\ []((raised = "KeyboardInterrupt") => pc \in {"raised", "exited"})
    /\ [][raised = "KeyboardInterrupt"
            => UNCHANGED <<results, printed, stdout, file, calls>>]_vars

\* interrupted in the middle of the CSV export, after the header row
C9_Witness ==
    /\ raised = "KeyboardInterrupt" /\ pc = "exited"
    /\ file.opened /\ Len(file.content) = 1
    /\ printed = Len(numbers)

----------------------------------------------------------------------------
(* C10 *)

\* C10: nothing is printed before every input was looked up, the file is
\* not opened before every record was printed, and the success line comes
\* only after the chosen serializer returned; so a write failure leaves
\* every record reported and no success line, and a run without -o never
\* prints the success line.
C10_PhasesInOrder ==
    /\ stdout # <<>> => Len(results) = Len(numbers)
    /\ (file.opened \/ calls # <<>>) => printed = Len(numbers)
    /\ HasSuccessLine =>
         /\ output # None /\ calls # <<>>
         /\ raised = None
         /\ pc \in {"cli_return", "exited"}
         /\ file.opened
         /\ format = "csv" => Len(file.content) = Len(results) + 1
         /\ format = "json" => file.content = results
    /\ raised = "OSError" => printed = Len(numbers) /\ ~HasSuccessLine

\* the write failed after the console output was complete
C10_Witness ==
    /\ pc = "exited" /\ raised = "OSError"
    /\ printed = Len(numbers) /\ Len(stdout) > 0
    /\ exitStatus = 1

====
